---------------------------- MODULE Spec2Model ----------------------------
(***************************************************************************)
(* Model of printer-installer.source.py: the self-service printer          *)
(* installer.  One run of main() is a sequence of five stages              *)
(* (user_ldap_groups, get_currently_mapped_queues,                         *)
(* build_printer_queue_list, queue selection, add_queue).  Every external  *)
(* collaborator (klist, ldapsearch, lpstat, cocoaDialog, jamf, lpadmin,    *)
(* the filesystem) is an input chosen by the environment.                  *)
(* run_jamf_policy and build_printer_queue_list are also run on their own, *)
(* over more inputs than a whole run can take in.                          *)
(*                                                                         *)
(* Python strings are sequences of character codes, so that substring      *)
(* tests, splitting and lexicographic sorting are computed, not assumed.   *)
(***************************************************************************)
EXTENDS Integers, Sequences, FiniteSets, TLC

(***************************************************************************)
(* Bounds                                                                  *)
(***************************************************************************)
\* Largest number of queue definitions in a catalog.
MaxQueues == 2

\* Largest number of policy runs, where run_jamf_policy is run on its own.
MaxPolicyRuns == 2

(***************************************************************************)
(* Strings                                                                 *)
(***************************************************************************)
\* Python's None: a value different from every string.
None == <<0>>

\* Python truthiness of a value that is None or a string.
Truthy(x) == x # None /\ x # <<>>

HP       == <<72, 80>>                              \* "HP"
HP_BW    == <<72, 80, 45, 66, 87>>                  \* "HP-BW"
HP_Color == <<72, 80, 45, 67, 111, 108, 111, 114>>  \* "HP-Color"
BW       == <<66, 87>>                              \* "BW"
B1       == <<66, 49>>                              \* "B1"
B        == <<66>>                                  \* "B"
OneB     == <<49, 66>>                              \* "1B"
IT       == <<73, 84>>                              \* "IT"
HR       == <<72, 82>>                              \* "HR"
Q1       == <<113, 49>>                             \* "q1"
Q2       == <<113, 50>>                             \* "q2"
DRV      == <<47, 100, 46, 112, 112, 100>>          \* "/d.ppd"
GENERIC  == <<47, 103, 46, 112, 112, 100>>          \* "/g.ppd"
DRVTRIG  == <<100, 114, 118>>                       \* "drv"
CDTRIG   == <<99, 100>>                             \* "cd"
CN_      == <<99, 110, 58, 32>>                     \* "cn: "
DN_LINE  == <<100, 110, 58, 32, 67, 78, 61, 117>>   \* "dn: CN=u"
PRINTER_ == <<112, 114, 105, 110, 116, 101, 114, 32>>  \* "printer "
IS_IDLE  == <<32, 105, 115, 32, 105, 100, 108, 101, 46>> \* " is idle."
CANCEL   == <<67, 97, 110, 99, 101, 108, 10>>       \* "Cancel\n"
ADD_     == <<65, 100, 100, 10>>                    \* "Add\n"

\* Python `v in s` for two strings.
IsSubstring(v, s) ==
    \E i \in 0..(Len(s) - Len(v)) : SubSeq(s, i + 1, i + Len(v)) = v

\* Python str.startswith.
StartsWith(s, p) == Len(s) >= Len(p) /\ SubSeq(s, 1, Len(p)) = p

\* Python's ordering of two strings: a < b.
LexLess(a, b) ==
    \E i \in 1..(Len(a) + 1) :
        /\ i <= Len(b)
        /\ \A j \in 1..(i - 1) : a[j] = b[j]
        /\ (i = Len(a) + 1 \/ a[i] < b[i])

\* Position of the first occurrence of character c in s, Len(s)+1 if none.
IndexOf(s, c) ==
    IF \E i \in 1..Len(s) : s[i] = c
    THEN CHOOSE i \in 1..Len(s) : s[i] = c /\ \A j \in 1..(i - 1) : s[j] # c
    ELSE Len(s) + 1

\* Whitespace characters of str.split() and str.strip().
IsSpace(c) == c \in {32, 9, 10, 13}

RECURSIVE LStrip(_)
LStrip(s) == IF s # <<>> /\ IsSpace(s[1]) THEN LStrip(Tail(s)) ELSE s

RECURSIVE RStrip(_)
RStrip(s) ==
    IF s # <<>> /\ IsSpace(s[Len(s)]) THEN RStrip(SubSeq(s, 1, Len(s) - 1)) ELSE s

\* Python str.strip().
Strip(s) == RStrip(LStrip(s))

\* Python str.split(sep) for a one-character separator: the list of fields.
RECURSIVE Split(_, _)
Split(s, sep) ==
    LET i == IndexOf(s, sep)
    IN  IF i > Len(s) THEN <<s>>
        ELSE <<SubSeq(s, 1, i - 1)>> \o Split(SubSeq(s, i + 1, Len(s)), sep)

\* Python str.split(): the list of whitespace-separated tokens.
RECURSIVE SplitWs(_)
SplitWs(s) ==
    LET t == LStrip(s)
        n == IF \E i \in 1..Len(t) : IsSpace(t[i])
             THEN (CHOOSE i \in 1..Len(t) :
                      IsSpace(t[i]) /\ \A j \in 1..(i - 1) : ~IsSpace(t[j])) - 1
             ELSE Len(t)
    IN  IF t = <<>> THEN <<>>
        ELSE <<SubSeq(t, 1, n)>> \o SplitWs(SubSeq(t, n + 1, Len(t)))

\* Python str.splitlines() for "\n" line ends.
RECURSIVE SplitLines(_)
SplitLines(s) ==
    LET i == IndexOf(s, 10)
    IN  IF s = <<>> THEN <<>>
        ELSE IF i > Len(s) THEN <<s>>
        ELSE <<SubSeq(s, 1, i - 1)>> \o SplitLines(SubSeq(s, i + 1, Len(s)))

\* Insert a string into a sorted list of strings, keeping it sorted.
RECURSIVE Insert(_, _)
Insert(x, list) ==
    IF list = <<>> THEN <<x>>
    ELSE IF LexLess(list[1], x) THEN <<list[1]>> \o Insert(x, Tail(list))
    ELSE <<x>> \o list

\* sorted() that leaves the list as it is.
sorted_AsGiven(list) == list

\* Python sorted() of a list of strings.
RECURSIVE sorted(_)
sorted(list) == IF list = <<>> THEN <<>> ELSE Insert(list[1], sorted(Tail(list)))

\* The elements of a list.
Elems(list) == {list[i] : i \in 1..Len(list)}

\* Some list of the elements of a finite set.
RECURSIVE ListOf(_)
ListOf(S) ==
    IF S = {} THEN <<>> ELSE LET x == CHOOSE x \in S : TRUE IN <<x>> \o ListOf(S \ {x})


(***************************************************************************)
(* Queue definitions (QUEUE_DEFINITIONS, the parsed JSON catalog)          *)
(***************************************************************************)
\* dict.get(key): the attribute's value, None when the attribute is absent.
Get(queue, key) == IF key \in DOMAIN queue THEN queue[key] ELSE None

\* One queue definition.  CUPSName and ADFilterGroup are optional attributes:
\* they are absent from the record when given as None here.
QueueDef(name, cups, location, group, driver) ==
    [DisplayName |-> name, Location |-> location, URI |-> <<>>,
     Driver |-> driver, DriverTrigger |-> DRVTRIG, Options |-> <<>>]
    @@ (IF cups = None THEN <<>> ELSE [CUPSName |-> cups])
    @@ (IF group = None THEN <<>> ELSE [ADFilterGroup |-> group])

\* The catalog keys used for a queue: its DisplayName, or an identifier.
QueueId(name) == IF name = HP_BW THEN Q1 ELSE IF name = HP_Color THEN Q2 ELSE name

\* The catalog keys a queue may be filed under: its DisplayName, an
\* identifier of its own, or (HP-BW) the name another queue displays.
QueueKeys(name) ==
    {name, QueueId(name)} \cup (IF name = HP_BW THEN {HP_Color} ELSE {})

\* Catalog entries of the workflow runs: key and definition.
RunEntries(name) ==
    { [key |-> k, def |-> QueueDef(name, None, B1, g, d)] :
        k \in QueueKeys(name), g \in {None, IT}, d \in {None, DRV} }

\* Catalog entries of the eligibility runs: every combination of the
\* attributes build_printer_queue_list reads.
EligEntries(name) ==
    { [key |-> name, def |-> QueueDef(name, c, l, g, None)] :
        c \in {None, BW}, l \in {<<>>, B1}, g \in {None, IT} }

\* The catalogs with at most MaxQueues definitions, one definition per
\* DisplayName (DisplayName is unique in a catalog) and per key.  entries
\* maps each DisplayName to the catalog entries it may have.
Catalogs(entries) ==
    UNION { { [k \in {f[n].key : n \in N} |->
                 f[CHOOSE n \in N : f[n].key = k].def ] :
              f \in { g \in [N -> UNION {entries[n] : n \in N}] :
                        /\ \A n \in N : g[n] \in entries[n]
                        /\ \A n, m \in N : n # m => g[n].key # g[m].key } } :
            N \in {M \in SUBSET DOMAIN entries : Cardinality(M) <= MaxQueues} }

\* The catalogs of the workflow runs and of the eligibility runs.
RunCatalogs == Catalogs([n \in {HP_BW, HP_Color} |-> RunEntries(n)])
EligCatalogs == Catalogs([n \in {HP, HP_BW, HP_Color} |-> EligEntries(n)])

(***************************************************************************)
(* The run's observable effects.  A "world" w is a record of                *)
(*   log   the entries written by Logger.log, in order                     *)
(*   dlg   the cocoaDialog windows launched, in order; out is what a       *)
(*         window printed, where the program read it                       *)
(*   pol   the jamf policy runs, in order                                  *)
(*   cd    whether cocoaDialog exists at CDPATH                            *)
(*   lp    the lpadmin command line, once it was built and launched        *)
(*   ldap  the exit statuses of the ldapsearch calls made, in order        *)
(*   fs    the os.path.exists calls made and their answers, in order       *)
(*   exit  how the process ended, if it did                                *)
(* A statement executed after the process ended changes nothing.           *)
(***************************************************************************)
NoExit == [via |-> "running", line |-> 0, status |-> -1]
NoCommand == [launched |-> FALSE, p |-> None, L |-> None, v |-> None,
              P |-> None, o |-> <<>>]

Running(w) == w.exit.via = "running"

\* Logger.log(message)
Log(w, message, arg) ==
    IF Running(w)
    THEN [w EXCEPT !.log = Append(@, [msg |-> message, arg |-> arg])]
    ELSE w

\* An exception nothing catches, raised at the given source line: python
\* prints the traceback and the process ends with status 1.
Raise(w, line) ==
    IF Running(w)
    THEN [w EXCEPT !.exit = [via |-> "uncaught", line |-> line, status |-> 1]]
    ELSE w

\* quit(): SystemExit with no code, the process ends with status 0.
quit(w, line) ==
    IF Running(w)
    THEN [w EXCEPT !.exit = [via |-> "quit", line |-> line, status |-> 0]]
    ELSE w

\* sys.exit(status)
sys_exit(w, line, status) ==
    IF Running(w)
    THEN [w EXCEPT !.exit = [via |-> "sys.exit", line |-> line, status |-> status]]
    ELSE w

\* subprocess.Popen([CDPATH, mode, ...]): OSError when CDPATH does not exist.
Dialog(w, line, mode, text, info, arg, items) ==
    IF ~Running(w) THEN w
    ELSE IF ~w.cd THEN Raise(w, line)
    ELSE [w EXCEPT !.dlg = Append(@, [mode |-> mode, text |-> text,
                                      info |-> info, arg |-> arg, items |-> items,
                                      out |-> None])]

\* show_message(message_text, heading)
show_message(w, message_text, heading, arg) ==
    Dialog(w, 84, "ok-msgbox", heading, message_text, arg, <<>>)

\* error_and_exit(no_cocoaDialog)
error_and_exit(w, no_cocoaDialog) ==
    LET w1 == IF ~no_cocoaDialog
              THEN show_message(w, "error_undefined", "Error", None)
              ELSE w
        w2 == Log(w1, "An error occurred which requires exiting this program.", None)
    IN  sys_exit(w2, 104, 1)

\* os.path.exists(path): the answer is the environment's; the call is noted.
os_path_exists(w, path, exists) ==
    IF Running(w)
    THEN [w EXCEPT !.fs = Append(@, [path |-> path, exists |-> exists])]
    ELSE w

\* The two markers run_jamf_policy looks for in the policy's output.
NO_POLICIES ==   \* "No policies were found for the"
    <<78, 111, 32, 112, 111, 108, 105, 99, 105, 101, 115, 32, 119, 101, 114,
      101, 32, 102, 111, 117, 110, 100, 32, 102, 111, 114, 32, 116, 104, 101>>
SUBMITTING ==    \* "Submitting log to"
    <<83, 117, 98, 109, 105, 116, 116, 105, 110, 103, 32, 108, 111, 103, 32,
      116, 111>>

\* Texts the jamf binary can print.
NOT_FOUND_TEXT == NO_POLICIES \o <<32, 116, 114, 105, 103, 103, 101, 114, 46, 10>>
SUBMITTED_TEXT == SUBMITTING \o <<32, 104, 116, 116, 112, 115, 58, 47, 47, 106, 47, 10>>
CHECKING_TEXT ==  \* "Checking for policies...\n"
    <<67, 104, 101, 99, 107, 105, 110, 103, 32, 102, 111, 114, 32, 112, 111,
      108, 105, 99, 105, 101, 115, 46, 46, 46, 10>>
LOWER_TEXT ==     \* "submitting log to\n"
    <<115, 117, 98, 109, 105, 116, 116, 105, 110, 103, 32, 108, 111, 103, 32,
      116, 111, 10>>
SHORT_TEXT ==     \* "Submitting log\n"
    <<83, 117, 98, 109, 105, 116, 116, 105, 110, 103, 32, 108, 111, 103, 10>>

\* The outputs of the policy runs of a whole run of the program: no marker,
\* either marker, both markers.
PolicyOutputs ==
    {CHECKING_TEXT, CHECKING_TEXT \o NOT_FOUND_TEXT, CHECKING_TEXT \o SUBMITTED_TEXT,
     CHECKING_TEXT \o NOT_FOUND_TEXT \o SUBMITTED_TEXT}

\* The outputs of the policy runs checked on their own: also the empty
\* output, the markers in the other order, and texts that nearly hold one.
PolicyTexts ==
    PolicyOutputs \cup
    {<<>>, NOT_FOUND_TEXT, SUBMITTED_TEXT, SUBMITTED_TEXT \o NOT_FOUND_TEXT,
     LOWER_TEXT, SHORT_TEXT, SHORT_TEXT \o NOT_FOUND_TEXT}

\* PolicyResult with the two tests of lines 126-131 in the other order.
PolicyResult_SubmittingFirst(policy_return) ==
    IF IsSubstring(SUBMITTING, policy_return) THEN TRUE
    ELSE FALSE

\* Lines 126-133 of run_jamf_policy: the classification of the output.
PolicyResult(policy_return) ==
    IF IsSubstring(NO_POLICIES, policy_return) THEN FALSE
    ELSE IF IsSubstring(SUBMITTING, policy_return) THEN TRUE
    ELSE FALSE

\* PolicySteps without the terminate() of line 124.
PolicySteps_NoTerminate(quiet) ==
    (IF quiet THEN <<>> ELSE <<"progress_bar">>) \o <<"jamf_policy", "classify">>

\* What run_jamf_policy does, in order: progress_bar is the Popen of line
\* 110, jamf_policy lines 117-121, terminate line 124, classify lines 126-133.
PolicySteps(quiet) ==
    (IF quiet THEN <<>> ELSE <<"progress_bar">>)
    \o <<"jamf_policy">>
    \o (IF quiet THEN <<>> ELSE <<"terminate">>)
    \o <<"classify">>

\* The state of the progress bar when run_jamf_policy returns: terminate()
\* stops the child it is called on.
ProgressBar(steps) ==
    IF \E i \in 1..Len(steps) : steps[i] = "progress_bar"
    THEN IF \E i \in 1..Len(steps) : steps[i] = "terminate"
         THEN "terminated" ELSE "running"
    ELSE "none"

\* run_jamf_policy(trigger, quiet).  policy_return is the policy's output;
\* installed tells whether the policy put cocoaDialog in place.  The jamf
\* binary itself is taken to exist: the program is run by it.
run_jamf_policy(w, trigger, quiet, policy_return, installed) ==
    LET w1 == IF ~quiet
              THEN Dialog(w, 110, "progressbar", "Please wait...",
                          "Installing software...", None, <<>>)
              ELSE w
        ret == PolicyResult(policy_return)
        w2 == IF Running(w1)
              THEN [w1 EXCEPT
                      !.pol = Append(@, [trigger |-> trigger, quiet |-> quiet,
                                         out |-> policy_return, ret |-> ret,
                                         steps |-> PolicySteps(quiet),
                                         bar |-> ProgressBar(PolicySteps(quiet))]),
                      !.cd = @ \/ (trigger = CDTRIG /\ installed)]
              ELSE w1
        w3 == IF IsSubstring(NO_POLICIES, policy_return)
              THEN Log(w2, "Unable to run Jamf policy via trigger ", trigger)
              ELSE IF IsSubstring(SUBMITTING, policy_return)
              THEN Log(w2, "Successfully ran Jamf policy via trigger ", trigger)
              ELSE w2
    IN  [w |-> w3, ret |-> Running(w3) /\ ret]

\* The path of cocoaDialog.
CDPATH == <<47, 99, 100>>   \* "/cd"

\* check_for_cocoadialog()
check_for_cocoadialog(w, policy_return, installed) ==
    LET w1 == os_path_exists(w, CDPATH, w.cd)
    IN  IF ~w.cd
        THEN run_jamf_policy(w1, CDTRIG, TRUE, policy_return, installed)
        ELSE [w |-> w1, ret |-> TRUE]

(***************************************************************************)
(* Group Membership Resolver                                               *)
(***************************************************************************)
\* Exit status of ldapsearch that user_ldap_groups logs as an
\* authentication error.
LDAP_AUTH_ERROR == 254

\* has_kerberos_ticket(): `klist -s` ended with status 0.
has_kerberos_ticket(klist_status) == klist_status = 0

\* A text of the given lines, each ended by "\n".
RECURSIVE Text(_)
Text(lines) == IF lines = <<>> THEN <<>> ELSE lines[1] \o <<10>> \o Text(Tail(lines))

\* Lines 250-252: the value of every "cn: " line of ldapsearch's output.
RECURSIVE CnValues(_)
CnValues(lines) ==
    IF lines = <<>> THEN <<>>
    ELSE (IF StartsWith(lines[1], CN_)
          THEN <<Strip(Split(lines[1], 58)[2])>>
          ELSE <<>>) \o CnValues(Tail(lines))

\* user_ldap_groups(username).  dn and groups are the two ldapsearch calls:
\* their exit status (rc) and output (out).  The user's dn (lines 232-240)
\* only shapes the second call's search filter, whose result is an input here.
user_ldap_groups(w, klist_status, dn, groups) ==
    LET w1 == Log(w, "Generating list of user's AD groups", None)
    IN  IF ~has_kerberos_ticket(klist_status)
        THEN [w |-> Log(w1, "Kerberos ticket not found. AD group filtering disabled.", None),
              ret |-> <<>>]
        ELSE IF dn.rc # 0
        THEN LET w2 == [w1 EXCEPT !.ldap = <<dn.rc>>]
                 w3 == IF dn.rc = LDAP_AUTH_ERROR
                       THEN Log(w2, "Encountered an authentication error while searching ldap.", None)
                       ELSE Log(w2, "Unknown error searching ldap.", None)
                 w4 == show_message(w3, "ldap_error", "window_title", None)
             IN  [w |-> quit(w4, 230), ret |-> <<>>]
        ELSE LET w2 == [w1 EXCEPT !.ldap = <<dn.rc, groups.rc>>]
             IN  IF groups.rc # 0
                 \* check_output raises CalledProcessError outside any try block
                 THEN [w |-> Raise(w2, 242), ret |-> <<>>]
                 ELSE [w |-> w2, ret |-> CnValues(SplitLines(groups.out))]

(***************************************************************************)
(* Installed-Queue Inspector                                               *)
(***************************************************************************)
\* Lines 155-160: the second token of every line of lpstat's output.
RECURSIVE SecondTokens(_)
SecondTokens(lines) ==
    IF lines = <<>> THEN <<>>
    ELSE <<SplitWs(lines[1])[2]>> \o SecondTokens(Tail(lines))

\* get_currently_mapped_queues().  lpstat is the exit status (rc) and the
\* output (out) of `lpstat -p`.
get_currently_mapped_queues(w, lpstat) ==
    LET w1 == Log(w, "Gathering list of currently mappped queues", None)
        w2 == IF lpstat.rc # 0 THEN Log(w1, "No current print queues found", None) ELSE w1
        lines == IF lpstat.rc # 0 THEN <<>> ELSE SplitLines(lpstat.out)
    IN  IF \E i \in 1..Len(lines) : Len(SplitWs(lines[i])) < 2
        THEN [w |-> Raise(w2, 158), ret |-> <<>>]
        ELSE [w |-> w2, ret |-> SecondTokens(lines)]

(***************************************************************************)
(* Eligibility Filter                                                      *)
(***************************************************************************)
\* AlreadyInstalled without the CUPSName test of lines 172-174.
AlreadyInstalled_DisplayNameOnly(queue, current_queues) ==
    Get(queue, "DisplayName") \in Elems(current_queues)

\* Lines 168-174: the queue's DisplayName or CUPSName is already installed.
AlreadyInstalled(queue, current_queues) ==
    \/ Get(queue, "DisplayName") \in Elems(current_queues)
    \/ Get(queue, "CUPSName") \in Elems(current_queues)

\* Line 177: a filter is enabled and the queue has a value for its key.
FilterApplies(queue, filter_key) ==
    filter_key # "" /\ Truthy(Get(queue, filter_key))

\* FilterMismatch without the `queue.get(filter_key)` test of line 177: a
\* queue that does not set the attribute is matched against "".
FilterMismatch_UnsetIsEmpty(queue, filter_key, filter_value) ==
    /\ filter_key # ""
    /\ ~IsSubstring(filter_value,
                    IF Truthy(Get(queue, filter_key)) THEN Get(queue, filter_key)
                    ELSE <<>>)

\* Lines 177-179: the filter applies and the value does not match.
FilterMismatch(queue, filter_key, filter_value) ==
    /\ FilterApplies(queue, filter_key)
    /\ ~IsSubstring(filter_value, Get(queue, filter_key))

\* NotInGroup with `in` for `not in` at line 184.
NotInGroup_Inverted(queue, user_groups) ==
    /\ Truthy(Get(queue, "ADFilterGroup"))
    /\ Get(queue, "ADFilterGroup") \in Elems(user_groups)

\* Lines 183-185: the queue names a filter group the user is not in.
NotInGroup(queue, user_groups) ==
    /\ Truthy(Get(queue, "ADFilterGroup"))
    /\ Get(queue, "ADFilterGroup") \notin Elems(user_groups)

\* Lines 165-188: display_list, in the catalog's iteration order.
RECURSIVE DisplayList(_, _, _, _, _)
DisplayList(queues, current_queues, filter_key, filter_value, user_groups) ==
    IF queues = <<>> THEN <<>>
    ELSE LET queue == queues[1]
             rest == DisplayList(Tail(queues), current_queues, filter_key,
                                 filter_value, user_groups)
         IN  IF AlreadyInstalled(queue, current_queues) THEN rest
             ELSE IF FilterMismatch(queue, filter_key, filter_value) THEN rest
             ELSE IF NotInGroup(queue, user_groups) THEN rest
             ELSE <<Get(queue, "DisplayName")>> \o rest

\* Line 178 raises TypeError when filter_value is None: `None in "text"`.
FilterTypeError(defs, current_queues, filter_key, filter_value) ==
    /\ filter_value = None
    /\ \E k \in DOMAIN defs :
          /\ ~AlreadyInstalled(defs[k], current_queues)
          /\ FilterApplies(defs[k], filter_key)

\* The orders in which a dict with the values S can be iterated.
Orders(S) ==
    { s \in [1..Cardinality(S) -> S] :
        \A i, j \in 1..Cardinality(S) : i # j => s[i] # s[j] }

\* build_printer_queue_list(current_queues, filter_key, filter_value,
\* user_groups) over the catalog defs; queues is the catalog's definitions
\* in the order `for queue in QUEUE_DEFINITIONS.values()` yields them.
build_printer_queue_list(w, defs, queues, current_queues, filter_key, filter_value, user_groups) ==
    LET display_list == DisplayList(queues,
                                    current_queues, filter_key, filter_value,
                                    user_groups)
    IN  IF FilterTypeError(defs, current_queues, filter_key, filter_value)
        THEN [w |-> Raise(w, 178), ret |-> <<>>]
        ELSE IF display_list = <<>>
        THEN LET w1 == Log(w, "No currently-unmapped queues are available", None)
                 w2 == show_message(w1, "error_no_queues_available", "window_title", None)
             IN  [w |-> quit(w2, 193), ret |-> <<>>]
        ELSE [w |-> w, ret |-> sorted(display_list)]

(***************************************************************************)
(* Selection Provider                                                      *)
(***************************************************************************)
\* prompt_queue(list_of_queues).  prompt_return is cocoaDialog's output.
prompt_queue(w, list_of_queues, prompt_return) ==
    LET w1 == Log(w, "Prompting user to select desired queue", None)
        w2 == Dialog(w1, 260, "dropdown", "Select Print Queue",
                     "Choose a print queue to add to your computer:", None,
                     list_of_queues)
        w3 == IF Running(w2)
              THEN [w2 EXCEPT !.dlg[Len(w2.dlg)].out = prompt_return]
              ELSE w2
        lines == SplitLines(prompt_return)
    IN  IF prompt_return # CANCEL
        THEN IF Len(lines) < 2
             THEN [w |-> Raise(w3, 272), ret |-> None]
             ELSE [w |-> Log(w3, "User selected queue ", lines[2]),
                   ret |-> IF Running(w3) THEN lines[2] ELSE None]
        ELSE [w |-> Log(w3, "User canceled queue selection", None), ret |-> None]

\* select_queue without the membership test of line 376.
select_queue_NoValidation(w, preselected_queue, available_queues, policy_return, installed, prompt_return) ==
    IF Truthy(preselected_queue)
    THEN [w |-> w, ret |-> preselected_queue]
    ELSE LET c == check_for_cocoadialog(w, policy_return, installed)
         IN  IF ~c.ret
             THEN [w |-> error_and_exit(c.w, FALSE), ret |-> None]
             ELSE prompt_queue(c.w, available_queues, prompt_return)

\* Lines 372-388 of main(): the pre-selected queue, or the prompt.
select_queue(w, preselected_queue, available_queues, policy_return, installed, prompt_return) ==
    IF Truthy(preselected_queue)
    THEN IF preselected_queue \in Elems(available_queues)
         THEN [w |-> w, ret |-> preselected_queue]
         ELSE LET w1 == show_message(w, "error_preselected_queue", "window_title",
                                     preselected_queue)
              IN  [w |-> error_and_exit(w1, FALSE), ret |-> None]
    ELSE LET c == check_for_cocoadialog(w, policy_return, installed)
         IN  IF ~c.ret
             THEN [w |-> error_and_exit(c.w, FALSE), ret |-> None]
             ELSE prompt_queue(c.w, available_queues, prompt_return)

(***************************************************************************)
(* Driver Resolver & Installer, Queue Installer                            *)
(***************************************************************************)
\* install_drivers(trigger)
install_drivers(w, trigger, policy_return) ==
    run_jamf_policy(Log(w, "Attempting to install drivers via policy trigger ", trigger),
                    trigger, FALSE, policy_return, FALSE)

\* search_for_driver without the quit() of line 298.
search_for_driver_NoQuit(w, driver, trigger, exists, policy_return) ==
    IF ~exists
    THEN LET w1 == Log(os_path_exists(w, driver, exists),
                       "The driver was not found at ", driver)
             r == install_drivers(w1, trigger, policy_return)
         IN  IF ~r.ret
             THEN Log(show_message(r.w, "error_driver_failure", "window_title", None),
                      "Quitting program", None)
             ELSE r.w
    ELSE os_path_exists(w, driver, exists)

\* search_for_driver looking for the driver again after the trigger ran,
\* and giving up when it is still not there.
search_for_driver_Reverify(w, driver, trigger, exists, policy_return) ==
    IF ~exists
    THEN LET w1 == Log(os_path_exists(w, driver, exists),
                       "The driver was not found at ", driver)
             r == install_drivers(w1, trigger, policy_return)
             w2 == IF r.ret THEN os_path_exists(r.w, driver, exists) ELSE r.w
         IN  quit(Log(show_message(w2, "error_driver_failure", "window_title", None),
                      "Quitting program", None), 298)
    ELSE os_path_exists(w, driver, exists)

\* search_for_driver running the trigger a second time when the first run
\* did not succeed.
search_for_driver_Retry(w, driver, trigger, exists, policy_return) ==
    IF ~exists
    THEN LET w1 == Log(os_path_exists(w, driver, exists),
                       "The driver was not found at ", driver)
             r1 == install_drivers(w1, trigger, policy_return)
             r == IF r1.ret THEN r1 ELSE install_drivers(r1.w, trigger, policy_return)
         IN  IF ~r.ret
             THEN LET w2 == show_message(r.w, "error_driver_failure", "window_title", None)
                      w3 == Log(w2, "Quitting program", None)
                  IN  quit(w3, 298)
             ELSE r.w
    ELSE os_path_exists(w, driver, exists)

\* search_for_driver(driver, trigger).  exists is os.path.exists(driver).
search_for_driver(w, driver, trigger, exists, policy_return) ==
    IF ~exists
    THEN LET w1 == Log(os_path_exists(w, driver, exists),
                       "The driver was not found at ", driver)
             r == install_drivers(w1, trigger, policy_return)
         IN  IF ~r.ret
             THEN LET w2 == show_message(r.w, "error_driver_failure", "window_title", None)
                      w3 == Log(w2, "Quitting program", None)
                  IN  quit(w3, 298)
             ELSE r.w
    ELSE os_path_exists(w, driver, exists)

\* add_queue(queue).  The catalogs give every queue empty Options, so cmd
\* carries no -o pair.  launched tells whether Popen could start lpadmin; when
\* it cannot, Popen raises OSError at line 335, outside the try block.  The
\* except clause of lines 346-350 catches only CalledProcessError, which
\* communicate() never raises.
add_queue(w, defs, queue, exists, policy_return, launched) ==
    IF queue \notin DOMAIN defs THEN Raise(w, 304)
    ELSE
    LET q == defs[queue]
        w1 == IF Truthy(q.Driver)
              THEN search_for_driver(
                       Log(w, "Queue requires a vendor driver", q.DisplayName),
                       q.Driver, q.DriverTrigger, exists, policy_return)
              ELSE Log(w, "uses a generic driver", q.DisplayName)
        q_driver == IF Truthy(q.Driver) THEN q.Driver ELSE GENERIC
        cmd == [launched |-> launched, p |-> q.DisplayName, L |-> q.Location,
                v |-> q.URI, P |-> q_driver, o |-> q.Options]
        w2 == IF Running(w1) THEN [w1 EXCEPT !.lp = cmd] ELSE w1
        w3 == IF ~launched THEN Raise(w2, 335) ELSE w2
        w4 == Log(w3, "Excuting command: ", None)
        w5 == Log(w4, "successfully mapped", q.DisplayName)
        w6 == show_message(w5, "success_queue_added", "Success!", q.DisplayName)
    IN  quit(w6, 345)

(***************************************************************************)
(* State                                                                   *)
(***************************************************************************)
VARIABLES
    QUEUE_DEFINITIONS,        \* the catalog: key -> queue definition
    args,                     \* preselected_queue, filter_key, filter_value
    pc,                       \* the stage of main() that runs next, or ran last
    user_groups,              \* main's user_groups
    currently_mapped_queues,  \* main's currently_mapped_queues
    available_queues,         \* main's available_queues
    selected_queue,           \* main's selected_queue
    log,                      \* entries written by Logger.log
    dialogs,                  \* cocoaDialog windows shown
    policies,                 \* jamf policy runs
    cocoaDialog,              \* os.path.exists(CDPATH)
    lpadmin,                  \* the registration command, once launched
    ldapsearch,               \* exit statuses of the ldapsearch calls made
    exists_calls,             \* os.path.exists calls made and their answers
    exit                      \* how the process ended

vars == <<QUEUE_DEFINITIONS, args, pc, user_groups, currently_mapped_queues,
          available_queues, selected_queue, log, dialogs, policies,
          cocoaDialog, lpadmin, ldapsearch, exists_calls, exit>>

World == [log |-> log, dlg |-> dialogs, pol |-> policies, cd |-> cocoaDialog,
          lp |-> lpadmin, ldap |-> ldapsearch, fs |-> exists_calls,
          exit |-> exit]

SetWorld(w) ==
    /\ log' = w.log
    /\ dialogs' = w.dlg
    /\ policies' = w.pol
    /\ cocoaDialog' = w.cd
    /\ lpadmin' = w.lp
    /\ ldapsearch' = w.ldap
    /\ exists_calls' = w.fs
    /\ exit' = w.exit

IsWorld(w) ==
    /\ log = w.log
    /\ dialogs = w.dlg
    /\ policies = w.pol
    /\ cocoaDialog = w.cd
    /\ lpadmin = w.lp
    /\ ldapsearch = w.ldap
    /\ exists_calls = w.fs
    /\ exit = w.exit

\* The world of a process that has just started.
StartWorld(cd) == [log |-> <<>>, dlg |-> <<>>, pol |-> <<>>, cd |-> cd,
                   lp |-> NoCommand, ldap |-> <<>>, fs |-> <<>>,
                   exit |-> NoExit]

(***************************************************************************)
(* Inputs                                                                  *)
(***************************************************************************)
\* The command lines: a pre-selected queue or none, a filter or none.  A
\* filter key may come without a filter value (argparse leaves it None).
RunArgs ==
    { [preselected_queue |-> p, filter_key |-> f[1], filter_value |-> f[2]] :
        p \in {None, HP_BW, HP},
        f \in {<<"", None>>, <<"Location", B>>, <<"Location", OneB>>,
               <<"Location", None>>} }

EligArgs ==
    { [preselected_queue |-> None, filter_key |-> f[1], filter_value |-> f[2]] :
        f \in {<<"", None>>, <<"Location", B>>, <<"Location", OneB>>,
               <<"Location", None>>, <<"CUPSName", B>>, <<"CUPSName", OneB>>} }

\* What an ldapsearch call can come to.
DnResults == { [rc |-> c, out |-> Text(<<DN_LINE>>)] : c \in {0, LDAP_AUTH_ERROR, 1} }
GroupResults ==
    { [rc |-> c, out |-> Text(o)] :
        c \in {0, 1},
        o \in {<<>>, <<DN_LINE, CN_ \o IT>>, <<DN_LINE, CN_ \o HR>>} }

\* What `lpstat -p` can come to: a failure, or one line per installed queue.
PrinterLine(name) == PRINTER_ \o name \o IS_IDLE
RECURSIVE PrinterLines(_)
PrinterLines(names) ==
    IF names = <<>> THEN <<>>
    ELSE <<PrinterLine(names[1])>> \o PrinterLines(Tail(names))
LpstatResults(names) ==
    {[rc |-> 1, out |-> <<>>]}
    \cup { [rc |-> 0, out |-> Text(PrinterLines(ListOf(S)))] : S \in SUBSET names }

\* What the dropdown can print: the cancellation sentinel; the label of the
\* button pressed and the item shown in the list, one per line; nothing at
\* all, when the window went away without a button being pressed.
PromptReturns(list_of_queues) ==
    {CANCEL, <<>>}
    \cup { button \o list_of_queues[i] \o <<10>> :
             button \in {ADD_, CANCEL}, i \in 1..Len(list_of_queues) }

(***************************************************************************)
(* Stages of main()                                                        *)
(***************************************************************************)
IsRunning == exit.via = "running"

\* Line 362
UserLdapGroups ==
    /\ IsRunning /\ pc = "user_ldap_groups"
    /\ \E klist_status \in {0, 1}, dn \in DnResults, groups \in GroupResults :
         LET r == user_ldap_groups(World, klist_status, dn, groups)
         IN  /\ SetWorld(r.w)
             /\ user_groups' = r.ret
             /\ pc' = IF Running(r.w) THEN "get_currently_mapped_queues" ELSE pc
    /\ UNCHANGED <<QUEUE_DEFINITIONS, args, currently_mapped_queues,
                   available_queues, selected_queue>>

\* Line 365
GetCurrentlyMappedQueues ==
    /\ IsRunning /\ pc = "get_currently_mapped_queues"
    /\ \E lpstat \in LpstatResults({HP_BW, HP_Color}) :
         LET r == get_currently_mapped_queues(World, lpstat)
         IN  /\ SetWorld(r.w)
             /\ currently_mapped_queues' = r.ret
             /\ pc' = IF Running(r.w) THEN "build_printer_queue_list" ELSE pc
    /\ UNCHANGED <<QUEUE_DEFINITIONS, args, user_groups, available_queues,
                   selected_queue>>

\* Lines 367-370
BuildPrinterQueueList ==
    /\ IsRunning /\ pc = "build_printer_queue_list"
    /\ \E queues \in Orders({QUEUE_DEFINITIONS[k] : k \in DOMAIN QUEUE_DEFINITIONS}) :
         LET r == build_printer_queue_list(World, QUEUE_DEFINITIONS, queues,
                      currently_mapped_queues, args.filter_key,
                      args.filter_value, user_groups)
         IN  /\ SetWorld(r.w)
             /\ available_queues' = r.ret
             /\ pc' = IF Running(r.w) THEN "select_queue" ELSE pc
    /\ UNCHANGED <<QUEUE_DEFINITIONS, args, user_groups,
                   currently_mapped_queues, selected_queue>>

\* Lines 374-391: the selection; main() returns when nothing was selected.
SelectQueue ==
    /\ IsRunning /\ pc = "select_queue"
    /\ \E policy_return \in PolicyOutputs, installed \in BOOLEAN,
          prompt_return \in PromptReturns(available_queues) :
         /\ installed => IsSubstring(SUBMITTING, policy_return)
         /\ LET r == select_queue(World, args.preselected_queue, available_queues,
                                  policy_return, installed, prompt_return)
                w == IF Running(r.w) /\ ~Truthy(r.ret)
                     THEN [r.w EXCEPT !.exit = [via |-> "return", line |-> 391,
                                                 status |-> 0]]
                     ELSE r.w
            IN  /\ SetWorld(w)
                /\ selected_queue' = r.ret
                /\ pc' = IF Running(w) THEN "add_queue" ELSE pc
    /\ UNCHANGED <<QUEUE_DEFINITIONS, args, user_groups,
                   currently_mapped_queues, available_queues>>

\* Line 392
AddQueue ==
    /\ IsRunning /\ pc = "add_queue"
    /\ \E exists \in BOOLEAN, policy_return \in PolicyOutputs, launched \in BOOLEAN :
         SetWorld(add_queue(World, QUEUE_DEFINITIONS, selected_queue, exists,
                            policy_return, launched))
    /\ UNCHANGED <<QUEUE_DEFINITIONS, args, pc, user_groups,
                   currently_mapped_queues, available_queues, selected_queue>>

\* run_jamf_policy on its own: any trigger, quiet or not, any output.
RunJamfPolicy ==
    /\ IsRunning /\ pc = "run_jamf_policy"
    /\ Len(policies) < MaxPolicyRuns
    /\ \E trigger \in {CDTRIG, DRVTRIG}, quiet \in BOOLEAN,
          policy_return \in PolicyTexts, installed \in BOOLEAN :
         /\ installed => IsSubstring(SUBMITTING, policy_return)
         /\ SetWorld(run_jamf_policy(World, trigger, quiet, policy_return,
                                     installed).w)
    /\ UNCHANGED <<QUEUE_DEFINITIONS, args, pc, user_groups,
                   currently_mapped_queues, available_queues, selected_queue>>

(***************************************************************************)
(* Specifications                                                          *)
(***************************************************************************)
\* A run of the program from its start.
Init ==
    /\ QUEUE_DEFINITIONS \in RunCatalogs
    /\ args \in RunArgs
    /\ pc = "user_ldap_groups"
    /\ user_groups = <<>>
    /\ currently_mapped_queues = <<>>
    /\ available_queues = <<>>
    /\ selected_queue = None
    /\ \E cd \in BOOLEAN : IsWorld(StartWorld(cd))

Next ==
    \/ UserLdapGroups
    \/ GetCurrentlyMappedQueues
    \/ BuildPrinterQueueList
    \/ SelectQueue
    \/ AddQueue

Spec == Init /\ [][Next]_vars

\* The eligibility computation alone, over every catalog of EligEntries: the
\* program as it stands when main() calls build_printer_queue_list, after
\* user_ldap_groups and get_currently_mapped_queues returned.
InitElig ==
    /\ pc = "build_printer_queue_list"
    /\ available_queues = <<>>
    /\ selected_queue = None
    /\ \E klist_status \in {0, 1}, groups \in GroupResults,
          lpstat \in LpstatResults({HP_BW, HP_Color, BW}) :
         LET r1 == user_ldap_groups(StartWorld(TRUE), klist_status,
                                    [rc |-> 0, out |-> Text(<<DN_LINE>>)], groups)
             r2 == get_currently_mapped_queues(r1.w, lpstat)
         IN  /\ groups.rc = 0
             /\ lpstat.rc = 0
             /\ klist_status = 0 => r1.ret # <<>>
             /\ IsWorld(r2.w)
             /\ user_groups = r1.ret
             /\ currently_mapped_queues = r2.ret
    /\ QUEUE_DEFINITIONS \in EligCatalogs
    /\ args \in EligArgs

NextElig == BuildPrinterQueueList

SpecElig == InitElig /\ [][NextElig]_vars

\* The Policy/Trigger Runner alone: run_jamf_policy called up to
\* MaxPolicyRuns times, with cocoaDialog present or absent at the start.
InitPolicy ==
    /\ QUEUE_DEFINITIONS \in Catalogs([n \in {} |-> {}])
    /\ args = [preselected_queue |-> None, filter_key |-> "", filter_value |-> None]
    /\ pc = "run_jamf_policy"
    /\ user_groups = <<>>
    /\ currently_mapped_queues = <<>>
    /\ available_queues = <<>>
    /\ selected_queue = None
    /\ \E cd \in BOOLEAN : IsWorld(StartWorld(cd))

NextPolicy == RunJamfPolicy

SpecPolicy == InitPolicy /\ [][NextPolicy]_vars

(***************************************************************************)
(* Vocabulary of the properties                                            *)
(***************************************************************************)
\* The process has ended.
Ended == exit.via # "running"

\* build_printer_queue_list returned its list to main().
ListReturned == pc \in {"select_queue", "add_queue"}

CatalogQueues == {QUEUE_DEFINITIONS[k] : k \in DOMAIN QUEUE_DEFINITIONS}
InstalledSet == Elems(currently_mapped_queues)
Listed(queue) == queue.DisplayName \in Elems(available_queues)

\* The exclusion rules of section 4.1, stated on a definition.
HasInstalledName(queue) ==
    \/ queue.DisplayName \in InstalledSet
    \/ ("CUPSName" \in DOMAIN queue /\ queue.CUPSName \in InstalledSet)

\* The definition sets the attribute: it is there and is not empty.
HasAttribute(queue, key) ==
    key \in DOMAIN queue /\ queue[key] # None /\ queue[key] # <<>>

FilterGiven == args.filter_key # ""
RejectedByFilter(queue) ==
    /\ FilterGiven
    /\ HasAttribute(queue, args.filter_key)
    /\ ~IsSubstring(args.filter_value, queue[args.filter_key])

RejectedByGroup(queue) ==
    /\ HasAttribute(queue, "ADFilterGroup")
    /\ queue.ADFilterGroup \notin Elems(user_groups)

Logged(message) == \E i \in 1..Len(log) : log[i].msg = message
Shown(info) == \E i \in 1..Len(dialogs) : dialogs[i].mode = "ok-msgbox" /\ dialogs[i].info = info
ShownFor(info, arg) ==
    \E i \in 1..Len(dialogs) :
        dialogs[i].mode = "ok-msgbox" /\ dialogs[i].info = info /\ dialogs[i].arg = arg
Prompted == \E i \in 1..Len(dialogs) : dialogs[i].mode = "dropdown"
DriverTriggerRuns == {i \in 1..Len(policies) : ~policies[i].quiet}
RegistrationIssued == lpadmin # NoCommand

(***************************************************************************)
(* C1                                                                      *)
(***************************************************************************)
\* Scenario A of the specification: the catalog {HP-Color, HP-BW} with no
\* filter and no group restriction on HP-Color, installed = ["HP-BW"].
ScenarioA ==
    /\ {q.DisplayName : q \in CatalogQueues} = {HP_Color, HP_BW}
    /\ \A q \in CatalogQueues :
          q.DisplayName = HP_Color =>
              /\ ~HasAttribute(q, "ADFilterGroup")
              /\ ~HasAttribute(q, "CUPSName")
              /\ ~Truthy(q.Driver)
    /\ ~FilterGiven
    /\ currently_mapped_queues = <<HP_BW>>

\* C1: the list build_printer_queue_list returns holds no DisplayName of a
\* definition whose DisplayName is installed or whose CUPSName is set and
\* installed; in Scenario A the list is exactly ["HP-Color"].
C1_InstalledNeverEligible ==
    ListReturned =>
        /\ \A q \in CatalogQueues : HasInstalledName(q) => ~Listed(q)
        /\ ScenarioA => available_queues = <<HP_Color>>

\* Scenario A has run: HP-BW was left out and ["HP-Color"] was returned.
C1_Witness ==
    /\ ListReturned
    /\ ScenarioA
    /\ \E q \in CatalogQueues : q.DisplayName = HP_BW /\ ~Listed(q)
    /\ available_queues = <<HP_Color>>

\* A list was returned that leaves a definition out for its CUPSName alone.
C1_CupsNameReached ==
    /\ ListReturned
    /\ \E q \in CatalogQueues :
          /\ q.DisplayName \notin InstalledSet
          /\ ~RejectedByFilter(q) /\ ~RejectedByGroup(q)
          /\ HasInstalledName(q) /\ ~Listed(q)

(***************************************************************************)
(* C8                                                                      *)
(***************************************************************************)
\* C8: with a filter (K, V), every definition that does not set attribute K
\* is retained, and a definition that sets K is retained only if V is a
\* substring of its value (definitions left out by the installed set or the
\* group rule aside).
C8_FilterRetention ==
    (ListReturned /\ FilterGiven) =>
        \A q \in CatalogQueues :
            (~HasInstalledName(q) /\ ~RejectedByGroup(q)) =>
                /\ ~HasAttribute(q, args.filter_key) => Listed(q)
                /\ (HasAttribute(q, args.filter_key) /\ Listed(q)) =>
                       IsSubstring(args.filter_value, q[args.filter_key])

\* A filtered list that kept a definition without the attribute, kept one
\* whose value matches, and dropped one whose value does not.
C8_Witness ==
    /\ ListReturned /\ FilterGiven
    /\ \E q \in CatalogQueues :
          ~HasAttribute(q, args.filter_key) /\ Listed(q)
    /\ \E q \in CatalogQueues :
          /\ ~HasInstalledName(q) /\ ~RejectedByGroup(q)
          /\ RejectedByFilter(q) /\ ~Listed(q)

(***************************************************************************)
(* C9                                                                      *)
(***************************************************************************)
\* user_ldap_groups found no Kerberos ticket.
NoCredential == Logged("Kerberos ticket not found. AD group filtering disabled.")

\* C9: a definition with ADFilterGroup = G that no other rule leaves out is
\* listed if and only if G is among the resolved groups; without a
\* credential the resolved groups are empty, no definition with an
\* ADFilterGroup is listed, and the run goes on past user_ldap_groups.
C9_GroupRestriction ==
    /\ ListReturned =>
          \A q \in CatalogQueues :
              (HasAttribute(q, "ADFilterGroup") /\ ~HasInstalledName(q)
                   /\ ~RejectedByFilter(q)) =>
                  (Listed(q) <=> q.ADFilterGroup \in Elems(user_groups))
    /\ NoCredential =>
          /\ user_groups = <<>>
          /\ pc # "user_ldap_groups"
          /\ ListReturned =>
                 \A q \in CatalogQueues : HasAttribute(q, "ADFilterGroup") => ~Listed(q)

\* A list that holds the group-restricted queue of a member of its group.
C9_Witness ==
    /\ ListReturned
    /\ ~NoCredential
    /\ \E q \in CatalogQueues :
          HasAttribute(q, "ADFilterGroup") /\ Listed(q)
              /\ q.ADFilterGroup \in Elems(user_groups)

\* A run without a credential that went on and left a group-restricted
\* queue out of a list it returned.
C9_NoCredentialReached ==
    /\ ListReturned
    /\ NoCredential
    /\ \E q \in CatalogQueues : HasAttribute(q, "ADFilterGroup") /\ ~Listed(q)

(***************************************************************************)
(* C2                                                                      *)
(***************************************************************************)
\* main() was given a pre-selected queue that is not in the returned list.
InvalidPreselection ==
    /\ ListReturned
    /\ Truthy(args.preselected_queue)
    /\ args.preselected_queue \notin Elems(available_queues)

\* C2: a pre-selected queue that is not in the eligible list ends the run
\* on the InvalidPreselection path: the operator error naming the rejected
\* value is shown and the exit is fatal; the prompt is never shown, no
\* driver trigger is run and the registration command is never issued.
C2_InvalidPreselectionPath ==
    InvalidPreselection =>
        /\ pc = "select_queue"
        /\ ~Prompted
        /\ DriverTriggerRuns = {}
        /\ ~RegistrationIssued
        /\ Ended =>
              /\ ShownFor("error_preselected_queue", args.preselected_queue)
              /\ exit.status = 1

(***************************************************************************)
(* C3                                                                      *)
(***************************************************************************)
\* add_queue chose a definition with a vendor driver, the driver file was
\* absent, and the driver trigger's output held the "No policies" marker.
DriverPolicyNotFound ==
    /\ pc = "add_queue"
    /\ selected_queue \in DOMAIN QUEUE_DEFINITIONS
    /\ Truthy(QUEUE_DEFINITIONS[selected_queue].Driver)
    /\ \E i \in DriverTriggerRuns : IsSubstring(NO_POLICIES, policies[i].out)

\* C3 as stated: the driver-failure message is shown, the process exits
\* with a non-zero status and the registration command is never issued.
C3_DriverFailureExitsNonZero ==
    DriverPolicyNotFound =>
        /\ Shown("error_driver_failure")
        /\ Ended /\ exit.status # 0
        /\ ~RegistrationIssued

\* C3 as amended: the driver-failure message is shown, the process exits
\* through quit() at line 298, with status 0, and the registration command
\* is never issued.
C3_DriverFailureQuits ==
    DriverPolicyNotFound =>
        /\ Shown("error_driver_failure")
        /\ exit = [via |-> "quit", line |-> 298, status |-> 0]
        /\ ~RegistrationIssued

\* The driver trigger found no policy and the run has ended.
C3_Witness ==
    /\ DriverPolicyNotFound
    /\ Ended
    /\ Logged("Quitting program")

(***************************************************************************)
(* C4                                                                      *)
(***************************************************************************)
\* The normal completions: the queue was registered, the operator
\* cancelled, or there was no eligible queue.
NormalCompletion ==
    \/ exit.line = 345
    \/ exit.via = "return"
    \/ exit.line = 193

\* C4: every normal completion exits with status 0, and status 1 is
\* produced only by error_and_exit (sys.exit(1) at line 104).
C4_ExitStatus ==
    Ended =>
        /\ NormalCompletion => exit.status = 0
        /\ exit.status = 1 => (exit.via = "sys.exit" /\ exit.line = 104)

(***************************************************************************)
(* C5                                                                      *)
(***************************************************************************)
\* The fatal paths of section 7, as they show in the state of a run that
\* has ended.
DirectoryLookupFailure == Ended /\ \E i \in 1..Len(ldapsearch) : ldapsearch[i] # 0
NoEligibleQueues ==
    Ended /\ pc = "build_printer_queue_list" /\ exit.line # 178
InvalidPreselectionEnd == Ended /\ InvalidPreselection
DependencyMissing ==
    /\ Ended /\ pc = "select_queue"
    /\ \E i \in 1..Len(policies) :
          policies[i].trigger = CDTRIG /\ ~policies[i].ret
DriverInstallFailure ==
    Ended /\ \E i \in DriverTriggerRuns : ~policies[i].ret
RegistrationFailure == Ended /\ RegistrationIssued /\ ~lpadmin.launched

LoggedLdapFailure ==
    \/ Logged("Encountered an authentication error while searching ldap.")
    \/ Logged("Unknown error searching ldap.")
LoggedFatalError == Logged("An error occurred which requires exiting this program.")

\* C5: every fatal path writes a log entry and shows a notification before
\* the process exits; where cocoaDialog itself is missing, the log entry is
\* still written.  (The notification is asked for only where cocoaDialog
\* exists.)
C5_FatalPathsLogAndNotify ==
    /\ DirectoryLookupFailure =>
          LoggedLdapFailure /\ (cocoaDialog => Shown("ldap_error"))
    /\ NoEligibleQueues =>
          /\ Logged("No currently-unmapped queues are available")
          /\ cocoaDialog => Shown("error_no_queues_available")
    /\ InvalidPreselectionEnd =>
          /\ LoggedFatalError
          /\ cocoaDialog => Shown("error_preselected_queue")
    /\ DependencyMissing =>
          LoggedFatalError /\ (cocoaDialog => Shown("error_undefined"))
    /\ DriverInstallFailure =>
          /\ Logged("Quitting program")
          /\ cocoaDialog => Shown("error_driver_failure")
    /\ RegistrationFailure =>
          /\ Logged("There was a problem mapping the queue!")
          /\ cocoaDialog => Shown("error_unable_map_queue")

(***************************************************************************)
(* C6                                                                      *)
(***************************************************************************)
\* C6: when lpadmin cannot be launched, the failure is logged, the
\* unable-to-map message is shown and the run ends without reporting
\* success.
C6_LaunchFailureIsMappingError ==
    (RegistrationIssued /\ ~lpadmin.launched) =>
        /\ Ended
        /\ Logged("There was a problem mapping the queue!")
        /\ Shown("error_unable_map_queue")
        /\ ~Shown("success_queue_added")
        /\ ~Logged("successfully mapped")

(***************************************************************************)
(* C7                                                                      *)
(***************************************************************************)
\* C7: with a credential, the failure of either ldapsearch call is logged,
\* the directory error is shown, and the run ends before the eligible list
\* is computed.  (The message is asked for only where cocoaDialog exists.)
C7_LookupFailureIsFatal ==
    (\E i \in 1..Len(ldapsearch) : ldapsearch[i] # 0) =>
        /\ Ended /\ pc = "user_ldap_groups"
        /\ LoggedLdapFailure
        /\ (\E i \in 1..Len(ldapsearch) : ldapsearch[i] = LDAP_AUTH_ERROR)
              <=> Logged("Encountered an authentication error while searching ldap.")
        /\ cocoaDialog => Shown("ldap_error")

(***************************************************************************)
(* C10                                                                     *)
(***************************************************************************)
\* C10: an empty eligible list always ends the run on the no-queues path:
\* the condition is logged, the no-queues message is shown, and nothing is
\* selected, triggered or registered; no list that main() goes on with is
\* empty.
C10_EmptyListIsTerminal ==
    /\ ListReturned => available_queues # <<>>
    /\ NoEligibleQueues =>
          /\ Logged("No currently-unmapped queues are available")
          /\ Shown("error_no_queues_available")
          /\ selected_queue = None
          /\ ~Prompted
          /\ policies = <<>>
          /\ ~RegistrationIssued

(***************************************************************************)
(* C11                                                                     *)
(***************************************************************************)
\* The definition add_queue looked up for the selected queue.
SelectedDef == QUEUE_DEFINITIONS[selected_queue]

\* The os.path.exists calls made for the given path.
ExistsCalls(path) == {i \in 1..Len(exists_calls) : exists_calls[i].path = path}

\* add_queue chose a definition with a vendor driver, the driver file was
\* absent, and the output of the driver trigger held "Submitting log to".
DriverPolicySubmitted ==
    /\ pc = "add_queue"
    /\ selected_queue \in DOMAIN QUEUE_DEFINITIONS
    /\ Truthy(SelectedDef.Driver)
    /\ \E i \in ExistsCalls(SelectedDef.Driver) : ~exists_calls[i].exists
    /\ \E i \in DriverTriggerRuns : IsSubstring(SUBMITTING, policies[i].out)

\* The driver was taken as installed: no driver-failure ending, the
\* registration command was issued with the vendor driver path, and the
\* filesystem was asked about the driver once only.
TreatedAsInstalled ==
    /\ ~Shown("error_driver_failure")
    /\ exit.line # 298
    /\ RegistrationIssued
    /\ lpadmin.P = SelectedDef.Driver
    /\ Cardinality(ExistsCalls(SelectedDef.Driver)) = 1

\* C11 as stated: with Driver set, the driver file absent and a trigger
\* output that holds "Submitting log to", the driver is taken as installed
\* and the registration command is issued with the vendor driver path,
\* without a second look at the filesystem.
C11_SubmittedProceeds == DriverPolicySubmitted => TreatedAsInstalled

\* C11 as amended: the same, for a trigger output that holds "Submitting
\* log to" and does not hold "No policies were found for the".
C11_SubmittedAloneProceeds ==
    (/\ DriverPolicySubmitted
     /\ \A i \in DriverTriggerRuns : ~IsSubstring(NO_POLICIES, policies[i].out))
        => TreatedAsInstalled

\* The driver file was absent, the trigger reported success, and lpadmin
\* was started with the vendor driver path.
C11_Witness ==
    /\ DriverPolicySubmitted
    /\ \A i \in DriverTriggerRuns : ~IsSubstring(NO_POLICIES, policies[i].out)
    /\ RegistrationIssued /\ lpadmin.launched
    /\ lpadmin.P = DRV
    /\ exit.line = 345

(***************************************************************************)
(* C12                                                                     *)
(***************************************************************************)
\* What the dropdown of prompt_queue printed, where it was shown.
PromptOutputs ==
    {dialogs[i].out : i \in {j \in 1..Len(dialogs) : dialogs[j].mode = "dropdown"}}

\* The operator pressed Cancel; the operator pressed Add.
OperatorCancelled == \E out \in PromptOutputs : StartsWith(out, CANCEL)
OperatorConfirmed == \E out \in PromptOutputs : StartsWith(out, ADD_)

\* Nothing was selected and nothing was installed.
NothingInstalled ==
    /\ selected_queue = None
    /\ pc = "select_queue"
    /\ DriverTriggerRuns = {}
    /\ ~RegistrationIssued

\* C12: on the interactive path a cancellation ends the run as a non-error
\* outcome with no driver trigger and no registration command, and
\* prompt_queue gives a selection only when the operator pressed Add: for
\* every other output of the prompt nothing is selected and nothing is
\* installed.
C12_SelectionOnlyOnAdd ==
    Prompted =>
        /\ OperatorCancelled =>
              NothingInstalled /\ exit = [via |-> "return", line |-> 391, status |-> 0]
        /\ ~OperatorConfirmed => NothingInstalled

(***************************************************************************)
(* C13                                                                     *)
(***************************************************************************)
\* main() reached add_queue (line 392).
RegistrationStageReached == pc = "add_queue"

\* C13: whenever add_queue is reached, the selected queue is a member of
\* the eligible list build_printer_queue_list returned in this run, on the
\* pre-selected path and on the interactive path.
C13_SelectedIsEligible ==
    RegistrationStageReached =>
        /\ Truthy(selected_queue)
        /\ selected_queue \in Elems(available_queues)

\* add_queue was reached with a pre-selected queue.
C13_Witness ==
    /\ RegistrationStageReached
    /\ Truthy(args.preselected_queue)
    /\ selected_queue = args.preselected_queue
    /\ ~Prompted

\* add_queue was reached with the queue the operator chose at the prompt,
\* out of a list of more than one.
C13_InteractiveReached ==
    /\ RegistrationStageReached
    /\ ~Truthy(args.preselected_queue)
    /\ Prompted
    /\ Len(available_queues) > 1
    /\ selected_queue = available_queues[2]

(***************************************************************************)
(* C14                                                                     *)
(***************************************************************************)
HasNoPoliciesMarker(text) == IsSubstring(NO_POLICIES, text)
HasSubmittingMarker(text) == IsSubstring(SUBMITTING, text)

\* The log entries the policy runs are to leave, in the order of the runs.
RECURSIVE PolicyLog(_)
PolicyLog(runs) ==
    IF runs = <<>> THEN <<>>
    ELSE (IF HasNoPoliciesMarker(runs[1].out)
          THEN <<[msg |-> "Unable to run Jamf policy via trigger ",
                  arg |-> runs[1].trigger]>>
          ELSE IF HasSubmittingMarker(runs[1].out)
          THEN <<[msg |-> "Successfully ran Jamf policy via trigger ",
                  arg |-> runs[1].trigger]>>
          ELSE <<>>) \o PolicyLog(Tail(runs))

\* C14 as stated: for every output text, an output that holds the "No
\* policies were found for the" marker returns false, an output that holds
\* the "Submitting log to" marker returns true, and an output that holds
\* neither returns false.
C14_Classification ==
    \A i \in 1..Len(policies) :
        /\ HasNoPoliciesMarker(policies[i].out) => ~policies[i].ret
        /\ HasSubmittingMarker(policies[i].out) => policies[i].ret
        /\ (~HasNoPoliciesMarker(policies[i].out)
               /\ ~HasSubmittingMarker(policies[i].out)) => ~policies[i].ret

\* C14 as amended: an output that holds the "No policies were found for
\* the" marker returns false and is logged, also when it holds the other
\* marker too; an output that holds the "Submitting log to" marker and not
\* the "No policies" marker returns true and is logged; an output that
\* holds neither returns false and nothing is logged.
C14_ClassificationInOrder ==
    /\ \A i \in 1..Len(policies) :
          policies[i].ret <=> (/\ HasSubmittingMarker(policies[i].out)
                               /\ ~HasNoPoliciesMarker(policies[i].out))
    /\ pc = "run_jamf_policy" => log = PolicyLog(policies)

\* Two runs were classified: one whose output holds both markers, one whose
\* output holds the "Submitting log to" marker alone.
C14_Witness ==
    /\ pc = "run_jamf_policy"
    /\ Len(policies) = 2
    /\ HasNoPoliciesMarker(policies[1].out) /\ HasSubmittingMarker(policies[1].out)
    /\ ~policies[1].ret
    /\ ~HasNoPoliciesMarker(policies[2].out) /\ HasSubmittingMarker(policies[2].out)
    /\ policies[2].ret

\* A run was classified whose output nearly holds a marker, and holds none.
C14_NeitherReached ==
    /\ pc = "run_jamf_policy"
    /\ \E i \in 1..Len(policies) : policies[i].out = SHORT_TEXT /\ ~policies[i].ret
    /\ \E i \in 1..Len(policies) : policies[i].out = LOWER_TEXT /\ ~policies[i].ret

(***************************************************************************)
(* C15                                                                     *)
(***************************************************************************)
\* The list is in ascending lexicographic order.
Ascending(list) ==
    \A i \in 1..(Len(list) - 1) : list[i] = list[i + 1] \/ LexLess(list[i], list[i + 1])

\* C15: every non-empty list build_printer_queue_list returns is sorted in
\* ascending lexicographic order of DisplayName, whatever the catalog and
\* its iteration order, the installed set, the filter and the groups.
C15_ListIsSorted ==
    (ListReturned /\ available_queues # <<>>) => Ascending(available_queues)

\* A list of more than one DisplayName was returned.
C15_Witness ==
    /\ ListReturned
    /\ Len(available_queues) > 1
    /\ available_queues[1] # available_queues[2]

(***************************************************************************)
(* C16                                                                     *)
(***************************************************************************)
\* add_queue ran for a definition it found in the catalog.
AddQueueRan ==
    /\ pc = "add_queue" /\ Ended
    /\ selected_queue \in DOMAIN QUEUE_DEFINITIONS

\* os.path.exists said the selected definition's driver is there, or not.
DriverFound ==
    \E i \in ExistsCalls(SelectedDef.Driver) : exists_calls[i].exists
DriverNotFound ==
    \E i \in ExistsCalls(SelectedDef.Driver) : ~exists_calls[i].exists

\* C16: in any run the driver trigger is run at most once, and only when
\* the selected queue has Driver set and the driver file is absent; when
\* Driver is unset no trigger is run and the registration command uses the
\* generic driver path; when the driver file is present no trigger is run.
C16_DriverTriggerAtMostOnce ==
    /\ Cardinality(DriverTriggerRuns) <= 1
    /\ DriverTriggerRuns # {} =>
          /\ AddQueueRan
          /\ Truthy(SelectedDef.Driver)
          /\ DriverNotFound /\ ~DriverFound
          /\ \A i \in DriverTriggerRuns : policies[i].trigger = SelectedDef.DriverTrigger
    /\ AddQueueRan =>
          /\ ~Truthy(SelectedDef.Driver) =>
                /\ DriverTriggerRuns = {}
                /\ RegistrationIssued /\ lpadmin.P = GENERIC
          /\ (Truthy(SelectedDef.Driver) /\ DriverFound) =>
                /\ DriverTriggerRuns = {}
                /\ RegistrationIssued /\ lpadmin.P = SelectedDef.Driver

\* The driver file was absent, the trigger was run once and did not
\* succeed, and the run ended there.
C16_Witness ==
    /\ AddQueueRan
    /\ Truthy(SelectedDef.Driver)
    /\ DriverNotFound
    /\ Cardinality(DriverTriggerRuns) = 1
    /\ \E i \in DriverTriggerRuns : ~policies[i].ret
    /\ exit.line = 298

\* A queue without Driver was registered with the generic driver, and a
\* queue whose driver file is present was registered with its driver: no
\* trigger was run.
C16_GenericReached ==
    AddQueueRan /\ ~Truthy(SelectedDef.Driver) /\ lpadmin.P = GENERIC /\ lpadmin.launched
C16_PresentReached ==
    AddQueueRan /\ Truthy(SelectedDef.Driver) /\ DriverFound /\ lpadmin.launched

(***************************************************************************)
(* C17                                                                     *)
(***************************************************************************)
\* The place of a step among the steps of a policy run, 0 if it is not there.
StepAt(steps, name) ==
    IF \E i \in 1..Len(steps) : steps[i] = name
    THEN CHOOSE i \in 1..Len(steps) : steps[i] = name
    ELSE 0

\* The progress bars launched.
ProgressBars == {i \in 1..Len(dialogs) : dialogs[i].mode = "progressbar"}

C18_RegisteredIsSelected ==
    (RegistrationIssued /\ lpadmin.launched) => lpadmin.p = selected_queue

(***************************************************************************)
(* C19                                                                     *)
(***************************************************************************)
\* The prompt service was launched, or its launch was tried and failed
\* (the Popen of show_message, run_jamf_policy or prompt_queue raised).
PromptServiceLaunched ==
    \/ dialogs # <<>>
    \/ exit.via = "uncaught" /\ exit.line \in {84, 110, 260}

\* check_for_cocoadialog ran and found cocoaDialog, or had it installed.
CocoaDialogEstablished ==
    \/ \E i \in ExistsCalls(CDPATH) : exists_calls[i].exists
    \/ /\ ExistsCalls(CDPATH) # {}
       /\ \E i \in 1..Len(policies) : policies[i].trigger = CDTRIG /\ policies[i].ret

\* C19: in every run the prompt service (message box, progress indicator,
\* single-select list) is launched only after check_for_cocoadialog has
\* established that it is present or has been installed.
C19_PromptOnlyAfterCheck == PromptServiceLaunched => CocoaDialogEstablished

=============================================================================
